---- MODULE Spec2Model ----
(***************************************************************************)
(* A model of the graph library in src/src/lib.rs: DirectedGraph with its  *)
(* breadth-first, depth-first and topological iterators, is_cyclic,        *)
(* longest_distance_from, and the UndirectedGraph wrapper.                 *)
(*                                                                         *)
(* A VertexId is its index (0-based, as in the source); vertices[id + 1]   *)
(* is the vertex stored at index id.  An Option is a sequence of length    *)
(* at most one: None is << >> and Some(x) is << x >>.  A call produces     *)
(* Ret(value), or Panic when it aborts the program.                        *)
(***************************************************************************)
EXTENDS Integers, Sequences, FiniteSets, TLC

\* ------------------------------------------------------------------ bounds
MaxVertices == 3
MaxArcs == 2
\* i64 is modelled at a reduced width: the arithmetic of
\* longest_distance_from is taken in IntBits-bit two's complement.
IntBits == 8

Weights == {-1, 1}
Values == {"v"}
\* the ids a caller can hold: ids of this graph, or ids handed out by a
\* larger graph (VertexId is Copy and carries no graph identity)
VertexIds == 0 .. (MaxVertices - 1)

I64_MIN == -(2 ^ (IntBits - 1))
I64_MAX == (2 ^ (IntBits - 1)) - 1

\* ----------------------------------------------------------------- options
None == << >>
Some(x) == << x >>
IsSome(o) == Len(o) = 1
Unwrap(o) == o[1]
\* what a call produces: a value, or a panic that ends the program
Ret(x) == [panic |-> FALSE, val |-> x]
Panic == [panic |-> TRUE, val |-> None]
Ok == [ok |-> TRUE, names |-> None]
Err(id) == [ok |-> FALSE, names |-> Some(id)]

\* ------------------------------------------------------------- data model
Arc(other, weight) == [other |-> other, weight |-> weight]
Vertex(value, id) == [value |-> value, arcs_in |-> << >>, arcs_out |-> << >>, id |-> id]

VARIABLES
    vertices,   \* DirectedGraph.vertices
    okOut,      \* per id: the connect(id, _, _) calls that returned Ok
    okIn,       \* per id: the connect(_, id, _) calls that returned Ok
    allOk,      \* every connect call so far returned Ok
    pc,         \* "idle", "bf" / "df" (an iterator is borrowed), "aborted"
    visited,    \* the live iterator's visited markers
    q,          \* BFDirectedGraphIter.q
    stack,      \* DFDirectedGraphIter.stack
    start,      \* the id the live iterator was created from
    yielded,    \* the ids the live iterator has returned so far
    finished,   \* the live iterator has returned None
    last,       \* the last call: [op, args, ret]
    udirected,  \* UndirectedGraph.directed.vertices
    uAllOk,     \* every connect_undirected call so far returned Ok
    ulast       \* the last call on the UndirectedGraph

dvars == << vertices, okOut, okIn, allOk, pc, visited, q, stack, start, yielded, finished, last >>
uvars == << udirected, uAllOk, ulast >>
vars == << vertices, okOut, okIn, allOk, pc, visited, q, stack, start, yielded, finished, last,
           udirected, uAllOk, ulast >>

Call(op, args, ret) == [op |-> op, args |-> args, ret |-> ret]

\* ---------------------------------------------------------- DirectedGraph
new == << >>

vertex(g, id) == IF id < Len(g) THEN Some(g[id + 1]) ELSE None

vertex_value(g, id) == IF IsSome(vertex(g, id)) THEN Some(Unwrap(vertex(g, id)).value) ELSE None

add_vertex(g, value) == [graph |-> Append(g, Vertex(value, Len(g))), id |-> Len(g)]

\* connect pushes on from.arcs_out before it looks `to` up, and both error
\* messages are formatted with `from`.
connect(g, from, to, weight) ==
    IF ~IsSome(vertex(g, from))
    THEN [graph |-> g, ret |-> Err(from)]
    ELSE LET g1 == [g EXCEPT ![from + 1].arcs_out = Append(@, Arc(to, weight))]
         IN  IF ~IsSome(vertex(g1, to))
             THEN [graph |-> g1, ret |-> Err(from)]
             ELSE [graph |-> [g1 EXCEPT ![to + 1].arcs_in = Append(@, Arc(from, weight))],
                   ret |-> Ok]

is_empty(g) == Len(g) = 0

out_degree(g, id) == IF IsSome(vertex(g, id)) THEN Some(Len(Unwrap(vertex(g, id)).arcs_out)) ELSE None

in_degree(g, id) == IF IsSome(vertex(g, id)) THEN Some(Len(Unwrap(vertex(g, id)).arcs_in)) ELSE None

RECURSIVE SumOut(_, _)
SumOut(g, i) == IF i > Len(g) THEN 0 ELSE Len(g[i].arcs_out) + SumOut(g, i + 1)
NumArcs(g) == SumOut(g, 1)

\* -------------------------------------------------------------- iterators
\* sort_unstable_by_key(|arc| arc.weight): the result is ordered by weight;
\* the order among arcs of equal weight is not specified by the sort, so
\* every weight-ordered arrangement is a possible outcome.
sort_unstable_by_key(arcs) ==
    LET n == Len(arcs)
        perms == {p \in [1 .. n -> 1 .. n] :
                    /\ \A i, j \in 1 .. n : i # j => p[i] # p[j]
                    /\ \A i, j \in 1 .. n : i < j => arcs[p[i]].weight <= arcs[p[j]].weight}
    IN  {[i \in 1 .. n |-> arcs[p[i]]] : p \in perms}

\* one outcome of the sort for each vertex of the graph (a traversal sorts
\* the arcs of a vertex at most once, when it emits the vertex)
RECURSIVE SortChoicesUpTo(_, _)
SortChoicesUpTo(g, n) ==
    IF n = 0 THEN {<< >>}
    ELSE {Append(p, x) : p \in SortChoicesUpTo(g, n - 1), x \in sort_unstable_by_key(g[n].arcs_out)}
SortChoices(g) == SortChoicesUpTo(g, Len(g))

Iter(vis, frontier) == [visited |-> vis, frontier |-> frontier]

breadth_first_iter(g, from) == Iter([i \in 1 .. Len(g) |-> FALSE], << Arc(from, 0) >>)

depth_first_iter(g, from) == Iter([i \in 1 .. Len(g) |-> FALSE], << Arc(from, 0) >>)

\* BFNext without the visited guard of its first match arm
BFNextNoVisitedGuard(g, it, s) ==
    IF it.frontier = << >>
    THEN [it |-> it, ret |-> Ret(None)]
    ELSE LET arc == Head(it.frontier)
             popped == [it EXCEPT !.frontier = Tail(@)]
         IN  IF arc.other >= Len(it.visited) \/ arc.other >= Len(g)
             THEN [it |-> popped, ret |-> Panic]
             ELSE [it |-> Iter([it.visited EXCEPT ![arc.other + 1] = TRUE],
                               popped.frontier \o s[arc.other + 1]),
                   ret |-> Ret(Some(g[arc.other + 1]))]

\* BFDirectedGraphIter::next: q.pop_front(), then push_back of the sorted arcs
RECURSIVE BFNext(_, _, _)
BFNext(g, it, s) ==
    IF it.frontier = << >>
    THEN [it |-> it, ret |-> Ret(None)]
    ELSE LET arc == Head(it.frontier)
             popped == [it EXCEPT !.frontier = Tail(@)]
         IN  IF arc.other >= Len(it.visited) \/ arc.other >= Len(g)
             THEN [it |-> popped, ret |-> Panic]
             ELSE IF it.visited[arc.other + 1]
             THEN BFNext(g, popped, s)
             ELSE [it |-> Iter([it.visited EXCEPT ![arc.other + 1] = TRUE],
                               popped.frontier \o s[arc.other + 1]),
                   ret |-> Ret(Some(g[arc.other + 1]))]

\* DFDirectedGraphIter::next: stack.pop(), then push of the sorted arcs
RECURSIVE DFNext(_, _, _)
DFNext(g, it, s) ==
    IF it.frontier = << >>
    THEN [it |-> it, ret |-> Ret(None)]
    ELSE LET arc == it.frontier[Len(it.frontier)]
             popped == [it EXCEPT !.frontier = SubSeq(@, 1, Len(@) - 1)]
         IN  IF arc.other >= Len(it.visited) \/ arc.other >= Len(g)
             THEN [it |-> popped, ret |-> Panic]
             ELSE IF it.visited[arc.other + 1]
             THEN DFNext(g, popped, s)
             ELSE [it |-> Iter([it.visited EXCEPT ![arc.other + 1] = TRUE],
                               popped.frontier \o s[arc.other + 1]),
                   ret |-> Ret(Some(g[arc.other + 1]))]

\* -------------------------------------------------------------- is_cyclic
\* ScanArcs that does not take a vertex for its own reverse (misses self-loops)
RECURSIVE ScanArcsSkipSelf(_, _, _)
ScanArcsSkipSelf(g, vtx, i) ==
    IF i > Len(vtx.arcs_out) THEN Ret(FALSE)
    ELSE LET arc == vtx.arcs_out[i]
         IN  IF arc.other >= Len(g) THEN Panic
             ELSE IF /\ arc.other # vtx.id
                     /\ \E j \in 1 .. Len(g[arc.other + 1].arcs_out) :
                            g[arc.other + 1].arcs_out[j].other = vtx.id
             THEN Ret(TRUE)
             ELSE ScanArcsSkipSelf(g, vtx, i + 1)

\* the two inner loops of is_cyclic for one vertex of the traversal
RECURSIVE ScanArcs(_, _, _)
ScanArcs(g, vtx, i) ==
    IF i > Len(vtx.arcs_out) THEN Ret(FALSE)
    ELSE LET arc == vtx.arcs_out[i]
         IN  IF arc.other >= Len(g) THEN Panic
             ELSE IF \E j \in 1 .. Len(g[arc.other + 1].arcs_out) :
                        g[arc.other + 1].arcs_out[j].other = vtx.id
             THEN Ret(TRUE)
             ELSE ScanArcs(g, vtx, i + 1)

RECURSIVE CyclicLoop(_, _, _)
CyclicLoop(g, it, s) ==
    LET r == DFNext(g, it, s)
    IN  IF r.ret.panic THEN Panic
        ELSE IF r.ret.val = None THEN Ret(FALSE)
        ELSE LET c == ScanArcs(g, Unwrap(r.ret.val), 1)
             IN  IF c.panic THEN Panic
                 ELSE IF c.val THEN Ret(TRUE)
                 ELSE CyclicLoop(g, r.it, s)

CyclicFrom(g, s) == CyclicLoop(g, depth_first_iter(g, g[1].id), s)

is_cyclic(g, s) == IF is_empty(g) THEN Ret(FALSE) ELSE CyclicFrom(g, s)

\* ------------------------------------------------------ topological order
\* the state the recursive dfs threads through its calls: the visited set,
\* the closure's captures (order, last_counter) and the Result
DfsState(vis, order, last_counter) ==
    [visited |-> vis, order |-> order, last_counter |-> last_counter, err |-> FALSE, panic |-> FALSE]

\* post_children_visit: order[last_counter-1] = vertex_id; last_counter -= 1
post_children_visit(st, vertex_id) ==
    IF st.last_counter = 0 \/ st.last_counter > Len(st.order)
    THEN [st EXCEPT !.panic = TRUE]
    ELSE [st EXCEPT !.order[st.last_counter] = vertex_id, !.last_counter = @ - 1]

RECURSIVE dfs(_, _, _), dfsArcs(_, _, _, _)
dfs(g, from, st) ==
    IF from \in st.visited THEN st
    ELSE LET st1 == [st EXCEPT !.visited = @ \cup {from}]
         IN  IF ~IsSome(vertex(g, from))
             THEN [st1 EXCEPT !.err = TRUE]
             ELSE LET st2 == dfsArcs(g, Unwrap(vertex(g, from)).arcs_out, 1, st1)
                  IN  IF st2.err \/ st2.panic THEN st2
                      ELSE post_children_visit(st2, from)

dfsArcs(g, arcs_out, i, st) ==
    IF i > Len(arcs_out) THEN st
    ELSE LET result == dfs(g, arcs_out[i].other, st)
         IN  IF result.err \/ result.panic THEN result
             ELSE dfsArcs(g, arcs_out, i + 1, result)

RECURSIVE TopologicalLoop(_, _, _)
TopologicalLoop(g, i, st) ==
    IF i > Len(g) THEN st
    ELSE LET result == dfs(g, g[i].id, st)
         IN  IF result.err \/ result.panic THEN [result EXCEPT !.panic = TRUE]
             ELSE TopologicalLoop(g, i + 1, result)

topological_order(g) ==
    LET st == TopologicalLoop(g, 1, DfsState({}, [i \in 1 .. Len(g) |-> 0], Len(g)))
    IN  IF st.panic THEN Panic ELSE Ret(st.order)

reverse(order) == [i \in 1 .. Len(order) |-> order[Len(order) + 1 - i]]

TopologicalIter(order) == [order |-> order]

topologically_ordered_iter(g, s) ==
    LET c == is_cyclic(g, s)
    IN  IF c.panic THEN Panic
        ELSE IF c.val THEN Ret(None)
        ELSE LET t == topological_order(g)
             IN  IF t.panic THEN Panic
                 ELSE Ret(Some(TopologicalIter(reverse(t.val))))

\* TopologicalIter::next: order.pop(), then the lookup of the popped id
TopologicalNext(g, it) ==
    IF it.order = << >> THEN [it |-> it, ret |-> None]
    ELSE [it |-> [order |-> SubSeq(it.order, 1, Len(it.order) - 1)],
          ret |-> vertex(g, it.order[Len(it.order)])]

\* the vertices a `for` loop over the iterator sees: next() until None
RECURSIVE Collect(_, _)
Collect(g, it) ==
    LET r == TopologicalNext(g, it)
    IN  IF r.ret = None THEN << >> ELSE << Unwrap(r.ret) >> \o Collect(g, r.it)

Ids(vs) == [i \in 1 .. Len(vs) |-> vs[i].id]

\* --------------------------------------------------- longest_distance_from
\* a + b on i64: out of range, a build with overflow checks panics and a
\* build without them wraps
AddI64(a, b, overflow_checks) ==
    LET raw == a + b
    IN  IF raw >= I64_MIN /\ raw <= I64_MAX THEN Ret(raw)
        ELSE IF overflow_checks THEN Panic
        ELSE Ret(((raw - I64_MIN) % (2 ^ IntBits)) + I64_MIN)

\* distances.get(&id).unwrap_or(&i64::MIN)
GetOrMin(distances, id) == IF id \in DOMAIN distances THEN distances[id] ELSE I64_MIN

insert(distances, k, v) == [x \in DOMAIN distances \cup {k} |-> IF x = k THEN v ELSE distances[x]]

RECURSIVE RelaxArcs(_, _, _, _)
RelaxArcs(vtx, i, distances, overflow_checks) ==
    IF i > Len(vtx.arcs_out) THEN Ret(distances)
    ELSE LET arc == vtx.arcs_out[i]
             other_distance == AddI64(GetOrMin(distances, vtx.id), arc.weight, overflow_checks)
         IN  IF other_distance.panic THEN Panic
             ELSE IF GetOrMin(distances, arc.other) < other_distance.val
             THEN RelaxArcs(vtx, i + 1, insert(distances, arc.other, other_distance.val),
                            overflow_checks)
             ELSE RelaxArcs(vtx, i + 1, distances, overflow_checks)

RECURSIVE RelaxAll(_, _, _, _)
RelaxAll(vs, i, distances, overflow_checks) ==
    IF i > Len(vs) THEN Ret(Some(distances))
    ELSE LET d == RelaxArcs(vs[i], 1, distances, overflow_checks)
         IN  IF d.panic THEN Panic
             ELSE RelaxAll(vs, i + 1, d.val, overflow_checks)

longest_distance_from(g, source, s, overflow_checks) ==
    LET t == topologically_ordered_iter(g, s)
    IN  IF t.panic THEN Panic
        ELSE IF t.val = None THEN Ret(None)
        ELSE RelaxAll(Collect(g, Unwrap(t.val)), 1, insert(<< >>, source, 0), overflow_checks)

\* -------------------------------------------------------- UndirectedGraph
\* connect_undirected that makes only the first of its two connect calls
connect_undirected_one_way(g, one, other, weight) == connect(g, one, other, weight)

connect_undirected(g, one, other, weight) ==
    LET first == connect(g, one, other, weight)
    IN  IF first.ret.ok THEN connect(first.graph, other, one, weight) ELSE first

\* ---------------------------------------------------------------- actions
NoIter == /\ visited' = << >> /\ q' = << >> /\ stack' = << >>
          /\ start' = 0 /\ yielded' = << >> /\ finished' = FALSE

Init ==
    /\ vertices = new
    /\ okOut = [id \in VertexIds |-> 0]
    /\ okIn = [id \in VertexIds |-> 0]
    /\ allOk = TRUE
    /\ pc = "idle"
    /\ visited = << >> /\ q = << >> /\ stack = << >>
    /\ start = 0 /\ yielded = << >> /\ finished = FALSE
    /\ last = Call("new", << >>, Ret(None))
    /\ udirected = new
    /\ uAllOk = TRUE
    /\ ulast = Call("new", << >>, Ret(None))

\* a call that neither mutates the graph nor leaves an iterator behind
Query(call) ==
    /\ pc = "idle"
    /\ last' = call
    /\ pc' = IF call.ret.panic THEN "aborted" ELSE "idle"
    /\ UNCHANGED << vertices, okOut, okIn, allOk, visited, q, stack, start, yielded, finished >>
    /\ UNCHANGED uvars

AddVertex ==
    /\ pc = "idle"
    /\ Len(vertices) < MaxVertices
    /\ \E value \in Values :
         LET r == add_vertex(vertices, value)
         IN  /\ vertices' = r.graph
             /\ last' = Call("add_vertex", << value >>, Ret(r.id))
    /\ UNCHANGED << okOut, okIn, allOk, pc, visited, q, stack, start, yielded, finished >>
    /\ UNCHANGED uvars

Connect ==
    /\ pc = "idle"
    /\ NumArcs(vertices) < MaxArcs
    /\ \E from \in VertexIds, to \in VertexIds, weight \in Weights :
         LET r == connect(vertices, from, to, weight)
         IN  /\ vertices' = r.graph
             /\ last' = Call("connect", << from, to, weight >>, Ret(r.ret))
             /\ okOut' = IF r.ret.ok THEN [okOut EXCEPT ![from] = @ + 1] ELSE okOut
             /\ okIn' = IF r.ret.ok THEN [okIn EXCEPT ![to] = @ + 1] ELSE okIn
             /\ allOk' = (allOk /\ r.ret.ok)
    /\ UNCHANGED << pc, visited, q, stack, start, yielded, finished >>
    /\ UNCHANGED uvars

VertexValue == \E id \in VertexIds : Query(Call("vertex_value", << id >>, Ret(vertex_value(vertices, id))))

OutDegree == \E id \in VertexIds : Query(Call("out_degree", << id >>, Ret(out_degree(vertices, id))))

InDegree == \E id \in VertexIds : Query(Call("in_degree", << id >>, Ret(in_degree(vertices, id))))

IsEmpty == Query(Call("is_empty", << >>, Ret(is_empty(vertices))))

IsCyclic == \E s \in SortChoices(vertices) : Query(Call("is_cyclic", << >>, is_cyclic(vertices, s)))

\* topologically_ordered_iter, and the ids the returned iterator yields
TopologicallyOrderedIter ==
    \E s \in SortChoices(vertices) :
        LET t == topologically_ordered_iter(vertices, s)
        IN  Query(Call("topologically_ordered_iter", << >>,
                       IF t.panic THEN Panic
                       ELSE IF t.val = None THEN Ret(None)
                       ELSE Ret(Some(Ids(Collect(vertices, Unwrap(t.val)))))))

LongestDistanceFrom ==
    \E source \in VertexIds, s \in SortChoices(vertices), overflow_checks \in BOOLEAN :
        Query(Call("longest_distance_from", << source >>,
                   longest_distance_from(vertices, source, s, overflow_checks)))

BreadthFirstIter ==
    /\ pc = "idle"
    /\ \E from \in VertexIds :
         LET it == breadth_first_iter(vertices, from)
         IN  /\ visited' = it.visited
             /\ q' = it.frontier
             /\ start' = from
             /\ last' = Call("breadth_first_iter", << from >>, Ret(None))
    /\ pc' = "bf"
    /\ stack' = << >> /\ yielded' = << >> /\ finished' = FALSE
    /\ UNCHANGED << vertices, okOut, okIn, allOk >>
    /\ UNCHANGED uvars

DepthFirstIter ==
    /\ pc = "idle"
    /\ \E from \in VertexIds :
         LET it == depth_first_iter(vertices, from)
         IN  /\ visited' = it.visited
             /\ stack' = it.frontier
             /\ start' = from
             /\ last' = Call("depth_first_iter", << from >>, Ret(None))
    /\ pc' = "df"
    /\ q' = << >> /\ yielded' = << >> /\ finished' = FALSE
    /\ UNCHANGED << vertices, okOut, okIn, allOk >>
    /\ UNCHANGED uvars

\* what one call of next() leaves behind
Stepped(r) ==
    /\ visited' = r.it.visited
    /\ pc' = IF r.ret.panic THEN "aborted" ELSE pc
    /\ finished' = (~r.ret.panic /\ r.ret.val = None)
    /\ yielded' = IF r.ret.panic \/ r.ret.val = None
                  THEN yielded ELSE Append(yielded, Unwrap(r.ret.val).id)
    /\ UNCHANGED << vertices, okOut, okIn, allOk, start >>
    /\ UNCHANGED uvars

BFNextStep ==
    /\ pc = "bf" /\ ~finished
    /\ \E s \in SortChoices(vertices) :
         LET r == BFNext(vertices, Iter(visited, q), s)
         IN  /\ q' = r.it.frontier
             /\ stack' = stack
             /\ last' = Call("bf_next", << >>,
                             IF r.ret.panic THEN Panic
                             ELSE IF r.ret.val = None THEN Ret(None)
                             ELSE Ret(Some([id |-> Unwrap(r.ret.val).id,
                                            sorted_arcs |-> s[Unwrap(r.ret.val).id + 1]])))
             /\ Stepped(r)

DFNextStep ==
    /\ pc = "df" /\ ~finished
    /\ \E s \in SortChoices(vertices) :
         LET r == DFNext(vertices, Iter(visited, stack), s)
         IN  /\ stack' = r.it.frontier
             /\ q' = q
             /\ last' = Call("df_next", << >>,
                             IF r.ret.panic THEN Panic
                             ELSE IF r.ret.val = None THEN Ret(None)
                             ELSE Ret(Some([id |-> Unwrap(r.ret.val).id,
                                            sorted_arcs |-> s[Unwrap(r.ret.val).id + 1]])))
             /\ Stepped(r)

\* the iterator is dropped once it is exhausted; the graph can be mutated again
DropIter ==
    /\ pc \in {"bf", "df"} /\ finished
    /\ pc' = "idle"
    /\ NoIter
    /\ last' = Call("drop", << >>, Ret(None))
    /\ UNCHANGED << vertices, okOut, okIn, allOk >>
    /\ UNCHANGED uvars

UAddVertex ==
    /\ Len(udirected) < MaxVertices
    /\ \E value \in Values :
         LET r == add_vertex(udirected, value)
         IN  /\ udirected' = r.graph
             /\ ulast' = Call("add_vertex", << value >>, Ret(r.id))
    /\ UNCHANGED uAllOk
    /\ UNCHANGED dvars

ConnectUndirected ==
    /\ NumArcs(udirected) <= MaxArcs
    /\ \E one \in VertexIds, other \in VertexIds, weight \in Weights :
         LET r == connect_undirected(udirected, one, other, weight)
         IN  /\ udirected' = r.graph
             /\ ulast' = Call("connect_undirected", << one, other, weight >>, Ret(r.ret))
             /\ uAllOk' = (uAllOk /\ r.ret.ok)
    /\ UNCHANGED dvars

Next ==
    \/ AddVertex
    \/ Connect
    \/ VertexValue
    \/ OutDegree
    \/ InDegree
    \/ IsEmpty
    \/ IsCyclic
    \/ TopologicallyOrderedIter
    \/ LongestDistanceFrom
    \/ BreadthFirstIter
    \/ DepthFirstIter
    \/ BFNextStep
    \/ DFNextStep
    \/ DropIter

Spec == Init /\ [][Next]_vars

\* building a graph and traversing it
NextTraversal ==
    \/ AddVertex
    \/ Connect
    \/ BreadthFirstIter
    \/ DepthFirstIter
    \/ BFNextStep
    \/ DFNextStep
    \/ DropIter

SpecTraversal == Init /\ [][NextTraversal]_vars

\* building a graph and asking whether it is cyclic
NextCyclic ==
    \/ AddVertex
    \/ Connect
    \/ IsCyclic

SpecCyclic == Init /\ [][NextCyclic]_vars

UNext ==
    \/ UAddVertex
    \/ ConnectUndirected

SpecUndirected == Init /\ [][UNext]_vars

\* ------------------------------------------------- graph-theoretic notions
\* (defined from the arcs alone, independently of the traversals above)
Exists(g, id) == id < Len(g)

Succ(g, u) == IF Exists(g, u) THEN {g[u + 1].arcs_out[i].other : i \in 1 .. Len(g[u + 1].arcs_out)} ELSE {}

RECURSIVE Closure(_, _)
Closure(g, S) ==
    LET T == S \cup UNION {Succ(g, u) : u \in S}
    IN  IF T = S THEN S ELSE Closure(g, T)

\* the vertices reachable from `from`, `from` included
Reach(g, from) == Closure(g, {from})

\* no directed cycle of any length (a self-loop is a cycle)
Acyclic(g) == \A u \in 0 .. (Len(g) - 1) : \A v \in Succ(g, u) : u \notin Reach(g, v)

Range(seq) == {seq[i] : i \in 1 .. Len(seq)}
NoDup(seq) == \A i, j \in 1 .. Len(seq) : i # j => seq[i] # seq[j]
Pos(seq, x) == CHOOSE i \in 1 .. Len(seq) : seq[i] = x
SetMax(S) == CHOOSE x \in S : \A y \in S : y <= x

\* the largest weight sum of a directed path from source to v (acyclic g,
\* v reachable from source)
RECURSIVE Longest(_, _, _)
Longest(g, source, v) ==
    LET arcsOf(u) == {<< u, i >> : i \in 1 .. Len(g[u + 1].arcs_out)}
        into == {e \in UNION {arcsOf(u) : u \in Reach(g, source)} :
                    g[e[1] + 1].arcs_out[e[2]].other = v}
        sums == {Longest(g, source, e[1]) + g[e[1] + 1].arcs_out[e[2]].weight : e \in into}
    IN  IF v = source THEN SetMax(sums \cup {0}) ELSE SetMax(sums)

\* the stable sort by weight: ties keep their insertion order
StableSortByWeight(arcs) ==
    LET n == Len(arcs)
        p == CHOOSE f \in [1 .. n -> 1 .. n] :
                /\ \A i, j \in 1 .. n : i # j => f[i] # f[j]
                /\ \A i, j \in 1 .. n : i < j =>
                      \/ arcs[f[i]].weight < arcs[f[j]].weight
                      \/ arcs[f[i]].weight = arcs[f[j]].weight /\ f[i] < f[j]
    IN  [i \in 1 .. n |-> arcs[p[i]]]

Count(seq, x) == Cardinality({i \in 1 .. Len(seq) : seq[i] = x})

\* ------------------------------------------------------------------ claims

\* C1: on a graph built by successful connect calls, a Some from
\* topologically_ordered_iter yields every vertex exactly once and yields u
\* before v for every arc u->v.
C1_TopologicalOrder ==
    (last.op = "topologically_ordered_iter" /\ allOk /\ ~last.ret.panic /\ IsSome(last.ret.val)) =>
        LET order == Unwrap(last.ret.val)
        IN  /\ Len(order) = Len(vertices)
            /\ Range(order) = 0 .. (Len(vertices) - 1)
            /\ \A u \in 0 .. (Len(vertices) - 1) : \A v \in Succ(vertices, u) :
                   Pos(order, u) < Pos(order, v)

\* C2: on an acyclic graph built by successful connect calls and an existing
\* source, the keys of the map longest_distance_from returns are exactly the
\* vertices reachable from source.
C2_KeysAreReachable ==
    (/\ last.op = "longest_distance_from" /\ allOk /\ Acyclic(vertices)
     /\ Exists(vertices, last.args[1])
     /\ ~last.ret.panic /\ IsSome(last.ret.val)) =>
        DOMAIN Unwrap(last.ret.val) = Reach(vertices, last.args[1])

\* C3: on an acyclic graph built by successful connect calls and an existing
\* source, longest_distance_from returns a map that sends source to 0 and each
\* reachable vertex to the largest weight sum of a path from source to it.
C3_LongestDistances ==
    (/\ last.op = "longest_distance_from" /\ allOk /\ Acyclic(vertices)
     /\ Exists(vertices, last.args[1])) =>
        /\ ~last.ret.panic
        /\ IsSome(last.ret.val)
        /\ LET distances == Unwrap(last.ret.val)
               source == last.args[1]
           IN  /\ source \in DOMAIN distances /\ distances[source] = 0
               /\ \A v \in Reach(vertices, source) :
                      v \in DOMAIN distances /\ distances[v] = Longest(vertices, source, v)

\* C4: on a graph built by successful connect calls and an existing start,
\* a breadth-first or depth-first iterator never aborts, never yields a vertex
\* twice or a vertex unreachable from start, and has yielded exactly the
\* reachable vertices when next() returns None.
C4_TraversalVisitsReachableOnce ==
    (allOk /\ Exists(vertices, start)) =>
        /\ (pc \in {"bf", "df"}) =>
              /\ NoDup(yielded)
              /\ Range(yielded) \subseteq Reach(vertices, start)
              /\ finished => Range(yielded) = Reach(vertices, start)
        /\ (last.op \in {"bf_next", "df_next"}) => ~last.ret.panic

\* C4 witness: a breadth-first traversal ran to None over a graph with a
\* self-loop on a reachable vertex and with an unreachable vertex.
C4_Witness ==
    /\ pc = "bf" /\ finished /\ allOk /\ Exists(vertices, start)
    /\ Len(yielded) >= 2
    /\ \E u \in Reach(vertices, start) : u \in Succ(vertices, u)
    /\ \E v \in 0 .. (Len(vertices) - 1) : v \notin Reach(vertices, start)

\* C5: a connect that returns an error names the missing id: `from` when
\* `from` does not exist, `to` when `from` exists and `to` does not.
C5_ErrorNamesMissingId ==
    (last.op = "connect" /\ ~last.ret.val.ok) =>
        last.ret.val.names =
            Some(IF ~Exists(vertices, last.args[1]) THEN last.args[1] ELSE last.args[2])

\* C6: for every vertex, out_degree is the number of connect(v, _, _) calls
\* that returned Ok and in_degree the number of connect(_, v, _) calls that
\* returned Ok.
C6_DegreesCountOkConnects ==
    \A id \in 0 .. (Len(vertices) - 1) :
        /\ out_degree(vertices, id) = Some(okOut[id])
        /\ in_degree(vertices, id) = Some(okIn[id])

\* C7: a traversal that emits a vertex pushes the vertex's outgoing arcs in
\* ascending weight order, arcs of equal weight in insertion order (stated
\* for graphs built by successful connect calls).
C7_PushOrderIsStable ==
    (last.op \in {"bf_next", "df_next"} /\ allOk /\ ~last.ret.panic /\ IsSome(last.ret.val)) =>
        Unwrap(last.ret.val).sorted_arcs =
            StableSortByWeight(vertices[Unwrap(last.ret.val).id + 1].arcs_out)

\* C8: no lookup, no is_empty / is_cyclic / topologically_ordered_iter call and
\* no creation or step of a traversal iterator aborts, whatever the graph
\* state and the VertexId.
C8_NoAbort ==
    (last.op \in {"vertex_value", "out_degree", "in_degree", "is_empty", "is_cyclic",
                  "topologically_ordered_iter", "breadth_first_iter", "depth_first_iter",
                  "bf_next", "df_next"}) =>
        ~last.ret.panic

\* what the graph holds once a->b and b->a, with their incoming records,
\* have been appended
BothAppended(g, a, b, w) ==
    LET g1 == [g EXCEPT ![a + 1].arcs_out = Append(@, Arc(b, w))]
        g2 == [g1 EXCEPT ![b + 1].arcs_in = Append(@, Arc(a, w))]
        g3 == [g2 EXCEPT ![b + 1].arcs_out = Append(@, Arc(a, w))]
    IN  [g3 EXCEPT ![a + 1].arcs_in = Append(@, Arc(b, w))]

\* a step that is a connect_undirected call
IsConnectUndirected ==
    /\ ulast'.op = "connect_undirected"
    /\ << udirected, ulast >>' # << udirected, ulast >>

\* C9: a connect_undirected call returns Ok only with both arcs a->b and b->a
\* (and their incoming records) appended, returns Err when an endpoint is
\* missing, and while every call returned Ok the arcs a->b of weight w are as
\* many as the arcs b->a of weight w.
C9_UndirectedMirrors ==
    /\ [][IsConnectUndirected =>
            LET a == ulast'.args[1]
                b == ulast'.args[2]
                w == ulast'.args[3]
            IN  /\ ulast'.ret.val.ok =>
                      /\ Exists(udirected, a) /\ Exists(udirected, b)
                      /\ udirected' = BothAppended(udirected, a, b, w)
                /\ (~Exists(udirected, a) \/ ~Exists(udirected, b)) => ~ulast'.ret.val.ok]_vars
    /\ [](uAllOk =>
            \A a, b \in 0 .. (Len(udirected) - 1) : \A w \in Weights :
                /\ Count(udirected[a + 1].arcs_out, Arc(b, w)) = Count(udirected[b + 1].arcs_out, Arc(a, w))
                /\ Count(udirected[a + 1].arcs_out, Arc(b, w)) = Count(udirected[b + 1].arcs_in, Arc(a, w)))

\* C9 witness: a connect_undirected between two distinct vertices returned Ok
\* after an earlier edge was already in place.
C9_Witness ==
    /\ uAllOk /\ ulast.op = "connect_undirected" /\ ulast.ret.val.ok
    /\ ulast.args[1] # ulast.args[2]
    /\ NumArcs(udirected) >= 4

====
